---- MODULE Spec2Model ----
(***************************************************************************)
(* Model of app/main.py of the Evolution of Todo API: the startup hook,    *)
(* the request pipeline (ServerErrorMiddleware > log_requests >             *)
(* CORSMiddleware > ExceptionMiddleware > router > endpoint), the two       *)
(* exception handlers and the three system endpoints.                       *)
(*                                                                          *)
(* The middleware order follows from the registration order in main.py:     *)
(* add_middleware(CORSMiddleware) comes first and @app.middleware("http")   *)
(* second, and each registration is pushed in front of the earlier ones,    *)
(* so log_requests wraps CORSMiddleware.  The handler registered for        *)
(* Exception is the one the application hands to ServerErrorMiddleware,     *)
(* which wraps every user middleware; every other registered handler is     *)
(* looked up by ExceptionMiddleware, which sits inside all of them.         *)
(***************************************************************************)
EXTENDS Integers, Sequences, FiniteSets, TLC

\* Bounds of the model.
MaxReq == 2
MaxCorsReq == 1
MaxSlashes == 2

VARIABLES
    phase,      \* "booting" | "serving" | "aborted"
    db,         \* the database: [up, schema, rows]
    engine,     \* the engine handle startup obtained: "none" | "engine"
    at,         \* the blocking call startup_event is at, "end" past the last
    calls,      \* the steps startup_event has started, in order
    failed,     \* the step that raised inside startup_event's try, or "none"
    startupExc, \* the exception that step raised, or NoExc
    reraised,   \* whether startup_event let that exception out
    log,        \* the lines the logger has emitted
    reqs,       \* the requests received so far, with their position in the pipeline
    sent        \* per request, the responses sent to the client

vars == <<phase, db, engine, at, calls, failed, startupExc, reraised, log, reqs, sent>>

----------------------------------------------------------------------------
\* Values

NoOrigin == "<no origin>"
NoHeader == "<absent>"

\* main.py:26-32
allow_origins ==
    { "http://localhost:3000",
      "http://127.0.0.1:3000",
      "https://todo-evolution-liart.vercel.app",
      "https://todo-evolution.vercel.app",
      "https://evaluation-todo.vercel.app" }

\* main.py:33
allow_credentials == TRUE

\* main.py:34
allow_methods == <<"GET", "POST", "PUT", "PATCH", "DELETE", "OPTIONS">>

\* main.py:35  allow_headers=["*"]
allow_all_headers == TRUE

RECURSIVE Join(_)
Join(s) ==
    IF Len(s) = 0 THEN ""
    ELSE IF Len(s) = 1 THEN s[1]
    ELSE s[1] \o ", " \o Join(Tail(s))

InSeq(x, s) == \E i \in 1..Len(s) : s[i] = x

NoCors == [allowOrigin |-> NoHeader, allowMethods |-> NoHeader,
           allowCredentials |-> NoHeader]

Response(status, body) == [status |-> status, body |-> body, headers |-> NoCors]

NoResp == Response(0, <<>>)
NoExc == [cls |-> "", msg |-> "", status_code |-> 0]

Returned(resp) == [kind |-> "response", resp |-> resp, exc |-> NoExc]
Raised(exc) == [kind |-> "exception", resp |-> NoResp, exc |-> exc]
Pending == [kind |-> "none", resp |-> NoResp, exc |-> NoExc]


Line(level, text, id, method, path, status) ==
    [level |-> level, text |-> text, req |-> id, method |-> method,
     path |-> path, status |-> status]

StartupLine(level, text) == Line(level, text, 0, "", "", 0)

Rule == "============================================================"

----------------------------------------------------------------------------
\* Exceptions: a class, the message it was raised with and, for an
\* HTTPException, its status code.

\* The first base of each class the model names.  SQLAlchemyError is the one
\* class here with two bases (HasDescriptionCode, Exception); Mro gives its
\* linearisation.
Base(cls) ==
    CASE cls = "BaseException" -> "object"
      [] cls = "HasDescriptionCode" -> "object"
      [] cls \in {"Exception", "KeyboardInterrupt", "SystemExit", "GeneratorExit",
                  "CancelledError"} -> "BaseException"
      \* builtins
      [] cls \in {"LookupError", "ValueError", "RuntimeError", "ArithmeticError",
                  "OSError", "TypeError", "AttributeError"} -> "Exception"
      [] cls \in {"KeyError", "IndexError"} -> "LookupError"
      [] cls = "UnicodeError" -> "ValueError"
      [] cls = "UnicodeDecodeError" -> "UnicodeError"
      [] cls = "NotImplementedError" -> "RuntimeError"
      [] cls = "ZeroDivisionError" -> "ArithmeticError"
      [] cls \in {"ConnectionError", "FileNotFoundError"} -> "OSError"
      [] cls = "ConnectionRefusedError" -> "ConnectionError"
      \* sqlalchemy.exc
      [] cls = "SQLAlchemyError" -> "HasDescriptionCode"
      [] cls \in {"StatementError", "ArgumentError", "InvalidRequestError",
                  "TimeoutError"} -> "SQLAlchemyError"
      [] cls \in {"NoResultFound", "MultipleResultsFound", "NoSuchTableError"} ->
            "InvalidRequestError"
      [] cls = "DBAPIError" -> "StatementError"
      [] cls \in {"DatabaseError", "InterfaceError"} -> "DBAPIError"
      [] cls \in {"OperationalError", "IntegrityError", "ProgrammingError",
                  "DataError", "InternalError", "NotSupportedError"} -> "DatabaseError"
      \* fastapi / starlette
      [] cls \in {"StarletteHTTPException", "WebSocketException",
                  "ValidationException"} -> "Exception"
      [] cls = "HTTPException" -> "StarletteHTTPException"
      [] cls \in {"RequestValidationError", "WebSocketRequestValidationError",
                  "ResponseValidationError"} -> "ValidationException"

\* type(exc).__mro__
RECURSIVE Mro(_)
Mro(cls) ==
    IF cls = "object" THEN <<"object">>
    ELSE IF cls = "SQLAlchemyError"
    THEN <<"SQLAlchemyError", "HasDescriptionCode", "Exception", "BaseException",
           "object">>
    ELSE <<cls>> \o Mro(Base(cls))

IsInstance(exc, cls) == exc.cls # "" /\ InSeq(cls, Mro(exc.cls))

Exc(cls, msg) == [cls |-> cls, msg |-> msg, status_code |-> 0]

HttpExc(status, detail) == [cls |-> "HTTPException", msg |-> detail, status_code |-> status]

----------------------------------------------------------------------------
\* The database module (app/database.py): only its two entry points are used.
\* What a step of startup does is an input: it succeeds, or it raises an
\* Exception, or it raises what `except Exception` does not take.

StepOutcomes == {"ok", "RuntimeError", "KeyboardInterrupt", "SystemExit"}

StepExc(o) ==
    CASE o = "ok" -> NoExc
      [] o = "RuntimeError" -> Exc("RuntimeError", "startup step failed")
      [] o = "KeyboardInterrupt" -> Exc("KeyboardInterrupt", "")
      [] o = "SystemExit" -> Exc("SystemExit", "3")

Unreachable == Exc("OperationalError", "connection refused")

\* get_engine(): returns the engine handle or raises.
get_engine(o) ==
    IF o = "ok" THEN [exc |-> NoExc, engine |-> "engine"]
    ELSE [exc |-> StepExc(o), engine |-> "none"]

\* init_db(): creates the schema if absent; raises when the database cannot
\* be reached or the statement fails.
init_db(o, d) ==
    IF o # "ok" THEN [exc |-> StepExc(o), db |-> d]
    ELSE IF ~d.up THEN [exc |-> Unreachable, db |-> d]
    ELSE [exc |-> NoExc, db |-> [d EXCEPT !.schema = TRUE]]

\* with engine.connect() as conn: the connection is opened ...
connect(o, d) ==
    IF o # "ok" THEN [exc |-> StepExc(o), db |-> d]
    ELSE IF ~d.up THEN [exc |-> Unreachable, db |-> d]
    ELSE [exc |-> NoExc, db |-> d]

\* ... conn.execute(text("SELECT 1")) runs on it ...
execute(o, d) ==
    IF o # "ok" THEN [exc |-> StepExc(o), db |-> d]
    ELSE IF ~d.up THEN [exc |-> Unreachable, db |-> d]
    ELSE [exc |-> NoExc, db |-> d]

\* ... and leaving the with block closes it.
close(o, d) == [exc |-> StepExc(o), db |-> d]

----------------------------------------------------------------------------
\* startup_event

StartupHead ==
    << StartupLine("INFO", Rule),
       StartupLine("INFO", "Starting database initialization...") >>

StartupTail ==
    << StartupLine("INFO", Rule),
       StartupLine("INFO", "Database initialization complete!"),
       StartupLine("INFO", Rule) >>

\* The blocking calls of the try block, in the order it makes them; the last
\* three are the probe query.
StepOf(pt) == IF pt \in {"connect", "execute", "close"} THEN "select_1" ELSE pt

\* Mutant of startup_next: the try block ends once the engine is obtained,
\* with neither init_db nor the probe query.
startup_next_engine_only(pt) == "end"

startup_next(pt) ==
    CASE pt = "get_engine" -> "init_db"
      [] pt = "init_db" -> "connect"
      [] pt = "connect" -> "execute"
      [] pt = "execute" -> "close"
      [] pt = "close" -> "end"

Call(pt, o, d) ==
    CASE pt = "get_engine" -> [exc |-> get_engine(o).exc, db |-> d]
      [] pt = "init_db" -> init_db(o, d)
      [] pt = "connect" -> connect(o, d)
      [] pt = "execute" -> execute(o, d)
      [] pt = "close" -> close(o, d)

\* What is logged before a call, and after it when it returned.
LinesBefore(pt) == IF pt = "get_engine" THEN StartupHead ELSE <<>>

LinesAfter(pt) ==
    CASE pt = "get_engine" -> <<StartupLine("INFO", "Database engine created")>>
      [] pt = "init_db" ->
            <<StartupLine("INFO", "Database tables initialized successfully")>>
      [] pt = "connect" -> <<>>
      [] pt = "execute" -> <<StartupLine("INFO", "Database connection verified")>>
      [] pt = "close" -> StartupTail

\* except Exception as e: the clause takes the exceptions that are instances
\* of Exception; a KeyboardInterrupt or SystemExit passes it by.
startup_catches(exc) == IsInstance(exc, "Exception")

\* Mutant of startup_except: the exception is logged and swallowed.
startup_except_swallow(e) ==
    [lines |-> << StartupLine("ERROR", Rule),
                  StartupLine("ERROR", "Database initialization FAILED: " \o e.msg),
                  StartupLine("ERROR", Rule) >>,
     reraise |-> FALSE]

\* Mutant of startup_except: the failure is logged as a warning.
startup_except_warning(e) ==
    [lines |-> << StartupLine("WARNING", Rule),
                  StartupLine("WARNING", "Database initialization FAILED: " \o e.msg),
                  StartupLine("WARNING", Rule) >>,
     reraise |-> TRUE]

\* The except block: three error lines, the middle one with str(e), then the
\* bare raise.
startup_except(e) ==
    [lines |-> << StartupLine("ERROR", Rule),
                  StartupLine("ERROR", "Database initialization FAILED: " \o e.msg),
                  StartupLine("ERROR", Rule) >>,
     reraise |-> TRUE]

\* The startup hook, run once by the server before it accepts a connection,
\* one blocking call at a time: no coroutine of the process runs in between,
\* but the database may come or go.  When execute raises, leaving the with
\* block still closes the connection (outcome cO), and what that raises, if
\* anything, is the exception that goes on.  A hook that raises makes the
\* server report a failed startup and exit; a hook that returns lets it start
\* serving.
startup_event(o, cO) ==
    /\ phase = "booting"
    /\ at # "end"
    /\ LET r == Call(at, o, db)
           x == IF at = "execute" /\ r.exc # NoExc /\ close(cO, db).exc # NoExc
                THEN close(cO, db).exc ELSE r.exc
       IN
       /\ calls' = IF calls # <<>> /\ calls[Len(calls)] = StepOf(at)
                   THEN calls ELSE Append(calls, StepOf(at))
       /\ db' = r.db
       /\ engine' = IF at = "get_engine" /\ x = NoExc THEN get_engine(o).engine
                    ELSE engine
       /\ startupExc' = x
       /\ IF x = NoExc
          THEN /\ log' = log \o LinesBefore(at) \o LinesAfter(at)
               /\ at' = startup_next(at)
               /\ failed' = "none"
               /\ reraised' = FALSE
               /\ phase' = IF startup_next(at) = "end" THEN "serving" ELSE "booting"
          ELSE IF startup_catches(x)
          THEN LET h == startup_except(x) IN
               /\ log' = log \o LinesBefore(at) \o h.lines
               /\ at' = at
               /\ failed' = StepOf(at)
               /\ reraised' = h.reraise
               /\ phase' = IF h.reraise THEN "aborted" ELSE "serving"
          ELSE /\ log' = log \o LinesBefore(at)
               /\ at' = at
               /\ failed' = StepOf(at)
               /\ reraised' = TRUE
               /\ phase' = "aborted"
    /\ UNCHANGED <<reqs, sent>>

----------------------------------------------------------------------------
\* The exception handlers

Json(status, body) == Response(status, body)

\* Mutant of database_exception_handler: the exception's text is the message.
database_exception_handler_leaky(request, exc) ==
    Json(503, << <<"error.code", "DATABASE_ERROR">>, <<"error.message", exc.msg>> >>)

\* @app.exception_handler(SQLAlchemyError)
database_exception_handler(request, exc) ==
    Json(503,
         << <<"error.code", "DATABASE_ERROR">>,
            <<"error.message", "A database error occurred. Please try again later.">> >>)

\* @app.exception_handler(Exception)
general_exception_handler(request, exc) ==
    Json(500,
         << <<"error.code", "INTERNAL_SERVER_ERROR">>,
            <<"error.message", "An unexpected error occurred.">> >>)

\* The handlers FastAPI(...) registers by itself (main.py:16).
\* A status that allows no body (1xx, 204, 205, 304) is answered without one.
is_body_allowed_for_status_code(status) ==
    ~(status < 200 \/ status \in {204, 205, 304})

http_exception_handler(request, exc) ==
    IF is_body_allowed_for_status_code(exc.status_code)
    THEN Json(exc.status_code, << <<"detail", exc.msg>> >>)
    ELSE Response(exc.status_code, <<>>)

request_validation_exception_handler(request, exc) ==
    Json(422, << <<"detail", exc.msg>> >>)

\* app.exception_handlers: the three FastAPI(...) puts there, then the two of
\* main.py in the order it registers them.
exception_handlers ==
    << [cls |-> "StarletteHTTPException", handler |-> "http_exception_handler"],
       [cls |-> "RequestValidationError",
        handler |-> "request_validation_exception_handler"],
       [cls |-> "WebSocketRequestValidationError",
        handler |-> "websocket_request_validation_exception_handler"],
       [cls |-> "SQLAlchemyError", handler |-> "database_exception_handler"],
       [cls |-> "Exception", handler |-> "general_exception_handler"] >>

\* The handlers that answer an HTTP request.
RunHandler(h, request, exc) ==
    CASE h = "database_exception_handler" -> database_exception_handler(request, exc)
      [] h = "general_exception_handler" -> general_exception_handler(request, exc)
      [] h = "http_exception_handler" -> http_exception_handler(request, exc)
      [] h = "request_validation_exception_handler" ->
            request_validation_exception_handler(request, exc)

\* The websocket handlers: run for an HTTP request they give no response, and
\* handling ends in a TypeError.
IsWebSocketHandler(h) ==
    h \in {"websocket_request_validation_exception_handler", "websocket_exception"}

\* Mutant of ServerErrorHandler: no handler is registered for Exception.
ServerErrorHandler_unregistered == "none"

\* The handler the application gives ServerErrorMiddleware: the one registered
\* for Exception.
ServerErrorHandler ==
    IF \E i \in 1..Len(exception_handlers) : exception_handlers[i].cls = "Exception"
    THEN (CHOOSE e \in {exception_handlers[i] : i \in 1..Len(exception_handlers)} :
             e.cls = "Exception").handler
    ELSE "none"

\* The handlers ExceptionMiddleware holds: every other registration, and its
\* own handler for WebSocketException.
HandlerFor(cls) ==
    IF \E i \in 1..Len(exception_handlers) :
          exception_handlers[i].cls = cls /\ cls # "Exception"
    THEN (CHOOSE e \in {exception_handlers[i] : i \in 1..Len(exception_handlers)} :
             e.cls = cls).handler
    ELSE IF cls = "WebSocketException" THEN "websocket_exception"
    ELSE "none"

\* ExceptionMiddleware walks the exception's MRO and takes the first class that
\* has a handler.
RECURSIVE LookupMro(_)
LookupMro(mro) ==
    IF Len(mro) = 0 THEN "none"
    ELSE IF HandlerFor(mro[1]) # "none" THEN HandlerFor(mro[1])
    ELSE LookupMro(Tail(mro))

\* Mutant of lookup_exception_handler: only the exception's own class is
\* looked up.
lookup_exception_handler_exact(exc) == HandlerFor(exc.cls)

lookup_exception_handler(exc) == LookupMro(Mro(exc.cls))

\* ExceptionMiddleware takes the instances of Exception it has a handler for.
ExceptionMiddleware(request, result) ==
    IF /\ result.kind = "exception"
       /\ IsInstance(result.exc, "Exception")
       /\ lookup_exception_handler(result.exc) # "none"
    THEN IF IsWebSocketHandler(lookup_exception_handler(result.exc))
         THEN Raised(Exc("TypeError",
                         "Request.close() got an unexpected keyword argument 'code'"))
         ELSE Returned(RunHandler(lookup_exception_handler(result.exc), request,
                                  result.exc))
    ELSE result

----------------------------------------------------------------------------
\* Endpoints.  Each takes the database and gives back its result and the
\* database it leaves.

\* @app.get("/")
root(d) ==
    [result |-> Returned(Json(200,
        << <<"service", "Evolution of Todo API">>, <<"version", "0.1.0">>,
           <<"status", "running">>, <<"docs", "/docs">>, <<"health", "/health">> >>)),
     db |-> d]

\* Mutant of health_check: the endpoint reports the state of the database.
health_check_probing(d) ==
    IF d.up
    THEN [result |-> Returned(Json(200, << <<"status", "ok">> >>)), db |-> d]
    ELSE [result |-> Returned(Json(503, << <<"status", "unavailable">> >>)), db |-> d]

\* @app.get("/health")
health_check(d) ==
    [result |-> Returned(Json(200, << <<"status", "ok">> >>)), db |-> d]

\* @app.get("/api/ping")
ping(d) ==
    [result |-> Returned(Json(200, << <<"ping", "pong">>, <<"cors", "enabled">> >>)),
     db |-> d]

\* The task routes of app/routers (tasks_router): they read or write task rows
\* through the engine.  A route returns, or raises what the persistence layer
\* raised, or raises an HTTPException, or raises some other exception, or is
\* interrupted or cancelled while it runs.
TaskOutcomes ==
    {"ok", "IntegrityError", "OperationalError", "NoResultFound", "HTTPException",
     "ValueError", "KeyError", "KeyboardInterrupt", "CancelledError"}

Feasible(outcome, d) ==
    CASE outcome = "ok" -> d.up
      [] outcome = "IntegrityError" -> d.up
      [] outcome = "NoResultFound" -> d.up
      [] outcome = "OperationalError" -> ~d.up
      [] OTHER -> TRUE

tasks_router(request, d, outcome) ==
    CASE outcome = "ok" ->
            IF request.method = "POST"
            THEN [result |-> Returned(Json(201, << <<"task", "created">> >>)),
                  db |-> [d EXCEPT !.rows = @ + 1]]
            ELSE [result |-> Returned(Json(200, << <<"tasks", "list">> >>)), db |-> d]
      [] outcome = "IntegrityError" ->
            [result |-> Raised(Exc("IntegrityError", "duplicate key value")), db |-> d]
      [] outcome = "OperationalError" ->
            [result |-> Raised(Exc("OperationalError", "connection refused")), db |-> d]
      [] outcome = "NoResultFound" ->
            [result |-> Raised(Exc("NoResultFound", "No row was found")), db |-> d]
      [] outcome = "HTTPException" ->
            [result |-> Raised(HttpExc(404, "Task not found")), db |-> d]
      [] outcome = "ValueError" ->
            [result |-> Raised(Exc("ValueError", "invalid literal for int()")), db |-> d]
      [] outcome = "KeyError" ->
            [result |-> Raised(Exc("KeyError", "user_id")), db |-> d]
      [] outcome = "KeyboardInterrupt" ->
            [result |-> Raised(Exc("KeyboardInterrupt", "")), db |-> d]
      [] outcome = "CancelledError" ->
            [result |-> Raised(Exc("CancelledError", "")), db |-> d]

TasksPath == "/api/tasks"

\* The routes FastAPI(...) adds by itself (main.py:16-20): the OpenAPI schema
\* and the two documentation pages, each for GET and HEAD.
DocsPaths == {"/openapi.json", "/docs", "/docs/oauth2-redirect", "/redoc"}

docs(request, d) ==
    [result |-> Returned(
        IF request.path = "/openapi.json"
        THEN Json(200, << <<"openapi", "3.1.0">>,
                          <<"info.title", "Evolution of Todo API">>,
                          <<"info.description",
                            "REST API for the Evolution of Todo project (Phase 2.2)">>,
                          <<"info.version", "0.1.0">> >>)
        ELSE Response(200, << <<"text/html; charset=utf-8", request.path>> >>)),
     db |-> d]

RoutePaths == DocsPaths \cup {TasksPath, "/", "/health", "/api/ping"}

RECURSIVE Slashes(_)
Slashes(n) == IF n = 0 THEN "" ELSE "/" \o Slashes(n - 1)

\* path.rstrip("/") when it is the path of a route: the route's path that
\* `path` is n or more slashes after, "" when there is none.
RECURSIVE rstrip_from(_, _)
rstrip_from(path, n) ==
    IF n >= Len(path)
    THEN ""
    ELSE IF \E p \in RoutePaths \ {"/"} : path = p \o Slashes(n)
    THEN CHOOSE p \in RoutePaths \ {"/"} : path = p \o Slashes(n)
    ELSE rstrip_from(path, n + 1)

\* redirect_slashes: the route's path a path with trailing slashes is
\* redirected to, however many the slashes.
rstrip_slash(path) == rstrip_from(path, 1)

\* The router: the endpoint registered for the path and method; 405 for a
\* route's path with another method; a 307 redirect for a route's path with
\* slashes appended; 404 for any other path.
Router(request, d, outcome) ==
    IF request.path = TasksPath /\ request.method \in {"GET", "POST"}
    THEN tasks_router(request, d, outcome)
    ELSE IF request.path = "/" /\ request.method = "GET" THEN root(d)
    ELSE IF request.path = "/health" /\ request.method = "GET" THEN health_check(d)
    ELSE IF request.path = "/api/ping" /\ request.method = "GET" THEN ping(d)
    ELSE IF request.path \in DocsPaths /\ request.method \in {"GET", "HEAD"}
    THEN docs(request, d)
    ELSE IF request.path \in RoutePaths
    THEN [result |-> Returned(Json(405, << <<"detail", "Method Not Allowed">> >>)),
          db |-> d]
    ELSE IF rstrip_slash(request.path) # ""
    THEN [result |-> Returned(Response(307,
              << <<"location", rstrip_slash(request.path)>> >>)),
          db |-> d]
    ELSE [result |-> Returned(Json(404, << <<"detail", "Not Found">> >>)), db |-> d]

\* ExceptionMiddleware around the router.
\* thrown is what the endpoint raised, kept for the record of the request.
App(request, d, outcome) ==
    LET r == Router(request, d, outcome) IN
    [result |-> ExceptionMiddleware(request, r.result), db |-> r.db,
     thrown |-> r.result.exc]


----------------------------------------------------------------------------
\* CORSMiddleware, configured at main.py:24-36

\* Mutant of is_allowed_origin: every origin is allowed.
is_allowed_origin_any(origin) == TRUE

is_allowed_origin(origin) == origin \in allow_origins

\* The headers every preflight response carries.
preflight_headers ==
    [allowOrigin |-> NoHeader,
     allowMethods |-> Join(allow_methods),
     allowCredentials |-> IF allow_credentials THEN "true" ELSE NoHeader]

preflight_response(request) ==
    LET originOk == is_allowed_origin(request.origin)
        methodOk == InSeq(request.acrm, allow_methods)
        headers == IF originOk
                   THEN [preflight_headers EXCEPT !.allowOrigin = request.origin]
                   ELSE preflight_headers
        failures == (IF originOk THEN <<>> ELSE <<"origin">>)
                    \o (IF methodOk THEN <<>> ELSE <<"method">>)
    IN  IF Len(failures) > 0
        THEN [status |-> 400,
              body |-> << <<"text/plain", "Disallowed CORS " \o Join(failures)>> >>,
              headers |-> headers]
        ELSE [status |-> 200, body |-> << <<"text/plain", "OK">> >>, headers |-> headers]

\* The headers added to the response of a request that carries an Origin.
simple_response(request, resp) ==
    [resp EXCEPT !.headers =
        [allowOrigin |-> IF is_allowed_origin(request.origin)
                         THEN request.origin ELSE NoHeader,
         allowMethods |-> NoHeader,
         allowCredentials |-> IF allow_credentials THEN "true" ELSE NoHeader]]

IsPreflight(request) ==
    request.origin # NoOrigin /\ request.method = "OPTIONS" /\ request.acrm # NoHeader

CORSMiddleware(request, d, outcome) ==
    IF request.origin = NoOrigin THEN App(request, d, outcome)
    ELSE IF IsPreflight(request)
    THEN [result |-> Returned(preflight_response(request)), db |-> d, thrown |-> NoExc]
    ELSE LET a == App(request, d, outcome) IN
         IF a.result.kind = "response"
         THEN [a EXCEPT !.result = Returned(simple_response(request, a.result.resp))]
         ELSE a

----------------------------------------------------------------------------
\* The requests a client sends

Req(method, path, origin, acrm) ==
    [method |-> method, path |-> path, origin |-> origin, acrm |-> acrm]

OtherOrigin == "https://evil.example"

\* The workload of Spec: the system endpoints, one of them also called with
\* slashes appended, the task routes and a documentation page.
Requests ==
    { Req("GET", p, NoOrigin, NoHeader) : p \in {"/", "/health", "/api/ping", TasksPath} }
    \cup { Req("POST", TasksPath, NoOrigin, NoHeader),
           Req("GET", "/health" \o Slashes(MaxSlashes), NoOrigin, NoHeader),
           Req("GET", "/docs", NoOrigin, NoHeader) }

\* What the task routes do in the workloads: each outcome with one method,
\* OperationalError with both.
TaskRuns ==
    { <<"GET", o>> : o \in {"ok", "OperationalError", "NoResultFound", "HTTPException",
                            "KeyError", "KeyboardInterrupt"} }
    \cup { <<"POST", o>> : o \in {"ok", "OperationalError", "IntegrityError",
                                  "ValueError", "CancelledError"} }

\* The outcome is an input of the requests that run a task route; for every
\* other request it is not looked at.
InWorkload(request, outcome, d) ==
    IF request.path = TasksPath /\ request.method \in {"GET", "POST"}
    THEN <<request.method, outcome>> \in TaskRuns /\ Feasible(outcome, d)
    ELSE outcome = "ok"

\* The workload of SpecCors: every origin, preflight or not.
CorsRequests ==
    { Req(m, p, o, a) :
        m \in {"GET", "OPTIONS"}, p \in {"/api/ping", TasksPath},
        o \in allow_origins \cup {OtherOrigin, NoOrigin},
        a \in {NoHeader, "DELETE", "HEAD"} }

----------------------------------------------------------------------------
\* log_requests and the pipeline around it

\* log_requests up to its await: the first line, then call_next is awaited.
log_requests_before(r, max) ==
    /\ phase = "serving"
    /\ Len(reqs) < max
    /\ log' = Append(log, Line("INFO", "->", Len(reqs) + 1, r.method, r.path, 0))
    /\ reqs' = Append(reqs, [req |-> r, pc |-> "awaiting", result |-> Pending,
                             thrown |-> NoExc, runs |-> 0])
    /\ sent' = Append(sent, <<>>)
    /\ UNCHANGED <<phase, db, engine, at, calls, failed, startupExc, reraised>>

\* What call_next hands log_requests: the response of the rest of the stack,
\* or the exception it let through; when the stack was cancelled and gave no
\* response, call_next raises a RuntimeError in its place.
call_next_result(result) ==
    IF result.kind = "exception" /\ result.exc.cls = "CancelledError"
    THEN Raised(Exc("RuntimeError", "No response returned."))
    ELSE result

\* await call_next(request): the rest of the stack runs and either hands back
\* a response or lets the endpoint's exception through.
call_next(id, outcome) ==
    /\ phase = "serving"
    /\ reqs[id].pc = "awaiting"
    /\ InWorkload(reqs[id].req, outcome, db)
    /\ LET a == CORSMiddleware(reqs[id].req, db, outcome) IN
       /\ reqs' = [reqs EXCEPT ![id].pc = "resumed",
                                ![id].result = call_next_result(a.result),
                                ![id].thrown = a.thrown, ![id].runs = @ + 1]
       /\ db' = a.db
    /\ UNCHANGED <<phase, engine, at, calls, failed, startupExc, reraised, log, sent>>

\* The line log_requests writes once call_next has returned a response.
log_requests_line(request, response) ==
    Line("INFO", "<-", 0, request.method, request.path, response.status_code)

\* log_requests after its await, when call_next returned: the second line,
\* and it returns the response.
log_requests_after(id) ==
    /\ phase = "serving"
    /\ reqs[id].pc = "resumed"
    /\ reqs[id].result.kind = "response"
    /\ LET response == reqs[id].result.resp
           line == log_requests_line(reqs[id].req,
                                     [status_code |-> response.status])
       IN log' = Append(log, [line EXCEPT !.req = id])
    /\ reqs' = [reqs EXCEPT ![id].pc = "returned"]
    /\ UNCHANGED <<phase, db, engine, at, calls, failed, startupExc, reraised, sent>>

\* The response log_requests returned goes out to the client, in a later
\* step of the event loop than the line.
send_response(id) ==
    /\ phase = "serving"
    /\ reqs[id].pc = "returned"
    /\ sent' = [sent EXCEPT ![id] = Append(@, reqs[id].result.resp)]
    /\ reqs' = [reqs EXCEPT ![id].pc = "done"]
    /\ UNCHANGED <<phase, db, engine, at, calls, failed, startupExc, reraised, log>>

\* When call_next raised, the exception leaves log_requests at the await and
\* reaches ServerErrorMiddleware, which takes an Exception and answers with its
\* handler's response.
ServerErrorMiddleware(id) ==
    /\ phase = "serving"
    /\ reqs[id].pc = "resumed"
    /\ reqs[id].result.kind = "exception"
    /\ IsInstance(reqs[id].result.exc, "Exception")
    /\ LET response ==
            IF ServerErrorHandler = "none"
            THEN Response(500, << <<"text/plain", "Internal Server Error">> >>)
            ELSE RunHandler(ServerErrorHandler, reqs[id].req, reqs[id].result.exc)
       IN sent' = [sent EXCEPT ![id] = Append(@, response)]
    /\ reqs' = [reqs EXCEPT ![id].pc = "done"]
    /\ UNCHANGED <<phase, db, engine, at, calls, failed, startupExc, reraised, log>>

\* The exceptions that stop the event loop when they leave the application.
StopsLoop(exc) == exc.cls \in {"KeyboardInterrupt", "SystemExit"}

\* What is no Exception is taken by no middleware: it passes log_requests at
\* the await and leaves the application, nothing is logged and the
\* application sends nothing.  A KeyboardInterrupt or SystemExit stops the
\* event loop, and with it every request in flight.
exception_leaves_app(id) ==
    /\ phase = "serving"
    /\ reqs[id].pc = "resumed"
    /\ reqs[id].result.kind = "exception"
    /\ ~IsInstance(reqs[id].result.exc, "Exception")
    /\ reqs' = [reqs EXCEPT ![id].pc = "left"]
    /\ phase' = IF StopsLoop(reqs[id].result.exc) THEN "stopped" ELSE phase
    /\ UNCHANGED <<db, engine, at, calls, failed, startupExc, reraised, log, sent>>

\* The database becomes unreachable, or reachable again.
DbDown ==
    /\ db.up
    /\ db' = [db EXCEPT !.up = FALSE]
    /\ UNCHANGED <<phase, engine, at, calls, failed, startupExc, reraised, log, reqs, sent>>

DbUp ==
    /\ ~db.up
    /\ db' = [db EXCEPT !.up = TRUE]
    /\ UNCHANGED <<phase, engine, at, calls, failed, startupExc, reraised, log, reqs, sent>>

----------------------------------------------------------------------------
Init ==
    /\ phase = "booting"
    /\ db \in [up : BOOLEAN, schema : BOOLEAN, rows : {0}]
    /\ engine = "none"
    /\ at = "get_engine"
    /\ calls = <<>>
    /\ failed = "none"
    /\ startupExc = NoExc
    /\ reraised = FALSE
    /\ log = <<>>
    /\ reqs = <<>>
    /\ sent = <<>>

Startup == \E o \in StepOutcomes, cO \in StepOutcomes : startup_event(o, cO)

Pipeline ==
    \/ \E id \in 1..Len(reqs) : \E outcome \in TaskOutcomes : call_next(id, outcome)
    \/ \E id \in 1..Len(reqs) : log_requests_after(id)
    \/ \E id \in 1..Len(reqs) : send_response(id)
    \/ \E id \in 1..Len(reqs) : ServerErrorMiddleware(id)
    \/ \E id \in 1..Len(reqs) : exception_leaves_app(id)

Next ==
    \/ Startup
    \/ \E r \in Requests : log_requests_before(r, MaxReq)
    \/ Pipeline
    \/ DbDown
    \/ DbUp

Spec == Init /\ [][Next]_vars

NextCors ==
    \/ Startup
    \/ \E r \in CorsRequests : log_requests_before(r, MaxCorsReq)
    \/ Pipeline
    \/ DbDown
    \/ DbUp

SpecCors == Init /\ [][NextCors]_vars


----------------------------------------------------------------------------
\* Properties

Ids == 1..Len(reqs)
Done(id) == reqs[id].pc = "done"
LinesOf(id, text) == {i \in 1..Len(log) : log[i].req = id /\ log[i].text = text}
StartupSteps == <<"get_engine", "init_db", "select_1">>
IsDbError(exc) == IsInstance(exc, "SQLAlchemyError")
\* An exception no handler but the one for Exception takes.
IsOtherError(exc) ==
    /\ exc # NoExc
    /\ IsInstance(exc, "Exception")
    /\ \A c \in {"SQLAlchemyError", "StarletteHTTPException", "RequestValidationError",
                  "WebSocketRequestValidationError", "WebSocketException"} :
          ~IsInstance(exc, c)
DatabaseErrorBody ==
    << <<"error.code", "DATABASE_ERROR">>,
       <<"error.message", "A database error occurred. Please try again later.">> >>
InternalErrorBody ==
    << <<"error.code", "INTERNAL_SERVER_ERROR">>,
       <<"error.message", "An unexpected error occurred.">> >>

\* C1: when a step of startup_event fails, and whenever the database is
\* unreachable when startup_event calls it, startup ends aborted; from then on
\* the process is never serving and no request ever enters the pipeline.
C1_FailedStartupNeverServes ==
    /\ [](failed # "none" => phase = "aborted" /\ reqs = <<>> /\ sent = <<>>)
    /\ [][(/\ phase = "booting" /\ at \in {"init_db", "connect", "execute"}
            /\ ~db.up /\ <<at, phase>>' # <<at, phase>>)
           => phase' = "aborted"]_vars
    /\ [][phase = "aborted" => phase' = "aborted"]_vars

C1_Witness ==
    /\ phase = "aborted" /\ failed = "select_1" /\ ~db.up
    /\ startupExc.cls = "OperationalError" /\ db.schema

\* C2: a request is in the pipeline only when startup has completed (the
\* process is serving, or was and has been stopped since), and
\* startup has completed only when get_engine, init_db and the probe query
\* were called in that order and none of them raised.
C2_HandlersOnlyAfterOrderedStartup ==
    /\ reqs # <<>> => phase \in {"serving", "stopped"}
    /\ phase \in {"serving", "stopped"} =>
          /\ calls = StartupSteps
          /\ at = "end"
          /\ failed = "none"
          /\ engine = "engine"
          /\ db.schema

C2_Witness == phase = "serving" /\ \E id \in Ids : Done(id) /\ reqs[id].runs = 1

\* C3 (as claimed): every request gets exactly one line before dispatch and,
\* once it is answered, exactly one line after it, the first before the
\* second, whatever the endpoint did.
C3_TwoLinesPerRequest ==
    \A id \in Ids :
        /\ Cardinality(LinesOf(id, "->")) = 1
        /\ Cardinality(LinesOf(id, "<-")) <= 1
        /\ Done(id) =>
              /\ Cardinality(LinesOf(id, "<-")) = 1
              /\ \A i \in LinesOf(id, "->"), j \in LinesOf(id, "<-") : i < j

\* C4 (as claimed): every answered request has a line after dispatch, and
\* the status in it is the status of the response the client got.
C4_LoggedStatusIsSentStatus ==
    \A id \in Ids :
        Len(sent[id]) > 0 =>
            /\ LinesOf(id, "<-") # {}
            /\ \A i \in LinesOf(id, "<-") : log[i].status = sent[id][1].status

\* C5: a request whose endpoint raised a persistence-layer error is answered
\* once, with 503 and the DATABASE_ERROR envelope, never with 500.
C5_PersistenceErrorIs503 ==
    \A id \in Ids :
        IsDbError(reqs[id].thrown) =>
            /\ Len(sent[id]) <= 1
            /\ \A k \in 1..Len(sent[id]) :
                  sent[id][k].status = 503 /\ sent[id][k].body = DatabaseErrorBody
            /\ Done(id) => Len(sent[id]) = 1

C5_Witness ==
    \E i \in Ids, j \in Ids :
        /\ Done(i) /\ reqs[i].thrown.cls = "IntegrityError" /\ sent[i][1].status = 503
        /\ Done(j) /\ reqs[j].thrown.cls = "NoResultFound" /\ sent[j][1].status = 503

\* C6: a request whose endpoint raised an exception of the general category
\* (an Exception) that is not a persistence error and that no narrower handler
\* takes is answered once, with 500 and the INTERNAL_SERVER_ERROR envelope;
\* its endpoint ran once and nothing more is sent afterwards.
C6_OtherErrorIs500 ==
    \A id \in Ids :
        IsOtherError(reqs[id].thrown) =>
            /\ Len(sent[id]) <= 1
            /\ \A k \in 1..Len(sent[id]) :
                  sent[id][k].status = 500 /\ sent[id][k].body = InternalErrorBody
            /\ reqs[id].runs = 1
            /\ Done(id) => Len(sent[id]) = 1

C6_Witness ==
    \E i \in Ids, j \in Ids :
        /\ Done(i) /\ reqs[i].thrown.cls = "KeyError" /\ sent[i][1].status = 500
        /\ Done(j) /\ reqs[j].thrown.cls = "ValueError" /\ sent[j][1].status = 500

IsGet(id, path) == reqs[id].req.method = "GET" /\ reqs[id].req.path = path

\* C7: once the service is up, every GET /health is answered 200
\* {"status": "ok"} and every GET /api/ping 200 {"ping": "pong", "cors":
\* "enabled"}, whatever happened before and whether or not the database is
\* reachable, and running either endpoint leaves the database, the engine and
\* the phase as they were.
C7_HealthAndPingAreFixed ==
    /\ [](\A id \in Ids :
            /\ (IsGet(id, "/health") /\ reqs[id].pc # "awaiting") =>
                  /\ reqs[id].result.kind = "response"
                  /\ reqs[id].result.resp.status = 200
                  /\ reqs[id].result.resp.body = << <<"status", "ok">> >>
                  /\ Done(id) => sent[id] = <<reqs[id].result.resp>>
            /\ (IsGet(id, "/api/ping") /\ reqs[id].pc # "awaiting") =>
                  /\ reqs[id].result.kind = "response"
                  /\ reqs[id].result.resp.status = 200
                  /\ reqs[id].result.resp.body
                        = << <<"ping", "pong">>, <<"cors", "enabled">> >>
                  /\ Done(id) => sent[id] = <<reqs[id].result.resp>>)
    /\ [][\A id \in Ids :
            ((IsGet(id, "/health") \/ IsGet(id, "/api/ping"))
                /\ reqs[id].pc = "awaiting" /\ reqs'[id].pc # "awaiting")
            => (db' = db /\ engine' = engine /\ phase' = phase)]_vars

C7_Witness ==
    \E i \in Ids, j \in Ids :
        /\ i < j
        /\ Done(i) /\ sent[i][1].status \in {500, 503}
        /\ Done(j) /\ IsGet(j, "/health") /\ sent[j][1].status = 200
        /\ ~db.up

\* C8: a preflight request from an allow-listed origin is answered with
\* Access-Control-Allow-Origin set to that origin, Access-Control-Allow-Methods
\* naming the six configured methods and Access-Control-Allow-Credentials
\* true; no response to a request from any other origin carries
\* Access-Control-Allow-Origin.  The allow-list holds five origins.
C8_CorsFollowsAllowList ==
    /\ Cardinality(allow_origins) = 5
    /\ \A id \in Ids :
          Done(id) =>
            /\ (IsPreflight(reqs[id].req) /\ reqs[id].req.origin \in allow_origins) =>
                  /\ Len(sent[id]) = 1
                  /\ sent[id][1].headers.allowOrigin = reqs[id].req.origin
                  /\ sent[id][1].headers.allowMethods
                        = "GET, POST, PUT, PATCH, DELETE, OPTIONS"
                  /\ sent[id][1].headers.allowCredentials = "true"
            /\ reqs[id].req.origin \notin allow_origins =>
                  \A k \in 1..Len(sent[id]) :
                      sent[id][k].headers.allowOrigin = NoHeader

C8_Witness ==
    \E id \in Ids :
        /\ Done(id) /\ IsPreflight(reqs[id].req)
        /\ reqs[id].req.origin = "https://todo-evolution-liart.vercel.app"
        /\ sent[id][1].headers.allowOrigin = reqs[id].req.origin

\* C9: two requests whose endpoints raised exceptions of the same category
\* (persistence or other) get the same status and the same body, whatever the
\* exception's class and message and whatever the route.
C9_ErrorBodyDependsOnCategoryOnly ==
    \A i \in Ids, j \in Ids :
        (/\ Done(i) /\ Done(j)
         /\ \/ IsDbError(reqs[i].thrown) /\ IsDbError(reqs[j].thrown)
            \/ IsOtherError(reqs[i].thrown) /\ IsOtherError(reqs[j].thrown))
        => /\ Len(sent[i]) = 1 /\ Len(sent[j]) = 1
           /\ sent[i][1].status = sent[j][1].status
           /\ sent[i][1].body = sent[j][1].body

C9_Witness ==
    \E i \in Ids, j \in Ids :
        /\ Done(i) /\ Done(j)
        /\ reqs[i].thrown.cls = "OperationalError"
        /\ reqs[j].thrown.cls = "NoResultFound"
        /\ reqs[i].req.method # reqs[j].req.method

ErrorLines == {i \in 1..Len(log) : log[i].level = "ERROR"}

\* C10: startup_event calls each of its three steps at most once and in
\* order and stops at the first one that raises; what the step raised leaves
\* startup_event and the process ends aborted; a failure of the step (an
\* Exception, what the except block is for) is logged at error level before.
C10_StartupIsOneLinearPass ==
    /\ Len(calls) <= Len(StartupSteps)
    /\ \A i \in 1..Len(calls) : calls[i] = StartupSteps[i]
    /\ failed # "none" =>
          /\ calls[Len(calls)] = failed
          /\ reraised
          /\ phase = "aborted"
          /\ IsInstance(startupExc, "Exception") =>
                \E i \in ErrorLines :
                    log[i].text = "Database initialization FAILED: " \o startupExc.msg
    /\ failed = "none" => ErrorLines = {}

C10_Witness ==
    /\ failed = "init_db" /\ calls = <<"get_engine", "init_db">> /\ reraised
    /\ startupExc.cls = "OperationalError"
    /\ Cardinality(ErrorLines) = 3

====
